---- MODULE Spec2Model ----
(***************************************************************************)
(* Model of app.py: the boiling-point curve application.                   *)
(*                                                                         *)
(*   load_data                    cached read of ./chem_list.csv           *)
(*   get_compound_properties      first row whose Item equals the name     *)
(*   calculate_new_boiling_point  integrated Clausius-Clapeyron relation   *)
(*   main                         the script run once per session rerun    *)
(*                                                                         *)
(* Numbers.  Temperatures, enthalpies and the gas constant are exact       *)
(* rationals <<n, d>> (d > 0, lowest terms).  Pressures live on an integer *)
(* grid; np.log is a fixed-point logarithm in 1/1000 (rounded down) of a   *)
(* ratio of two grid pressures.  The results of numpy float operations     *)
(* that leave the finite range (log of 0, 1/0, ...) are the IEEE values    *)
(* inf, -inf and nan, which numpy returns with a warning instead of        *)
(* raising.                                                                *)
(***************************************************************************)
EXTENDS Integers, Sequences, FiniteSets, TLC

(***************************************************************************)
(* Bounds of the model.                                                    *)
(***************************************************************************)
\* number of samples of a curve (1000 in main)
NumSamples == 4
\* number of slider steps above the slider's minimum (9999 in main)
MaxTick == 2
\* largest pressure, in grid units, handed directly to the equation
MaxP == 24
\* number of sessions (script threads) sharing the process-wide cache
NumSessions == 2
\* number of read_csv calls followed in one behaviour
MaxReads == 2
\* number of rows of a table handed directly to get_compound_properties
MaxRows == 2

(***************************************************************************)
(* Exact rational arithmetic.                                              *)
(***************************************************************************)
Abs(x) == IF x < 0 THEN -x ELSE x

RECURSIVE GCD(_, _)
GCD(a, b) == IF b = 0 THEN a ELSE GCD(b, a % b)

\* the rational n/d in lowest terms with a positive denominator (d # 0)
Rat(n, d) ==
    LET g == GCD(Abs(n), Abs(d))
        s == IF d < 0 THEN -1 ELSE 1
    IN  <<s * (n \div g), s * (d \div g)>>

RAdd(a, b) ==
    LET g == GCD(a[2], b[2])
    IN  Rat(a[1] * (b[2] \div g) + b[1] * (a[2] \div g), (a[2] \div g) * b[2])

RNeg(a) == <<-a[1], a[2]>>

RSub(a, b) == RAdd(a, RNeg(b))

\* cross-cancelled before multiplying, so that the products stay small
RMul(a, b) ==
    LET g1 == GCD(Abs(a[1]), b[2])
        g2 == GCD(Abs(b[1]), a[2])
    IN  Rat((a[1] \div g1) * (b[1] \div g2), (a[2] \div g2) * (b[2] \div g1))

\* 1/a for a # 0
RInv(a) == Rat(a[2], a[1])

RDiv(a, b) == RMul(a, RInv(b))

\* a < b, by comparing the continued-fraction expansions (no products)
RECURSIVE RLess(_, _)
RLess(a, b) ==
    LET qa == a[1] \div a[2]
        qb == b[1] \div b[2]
        ra == a[1] % a[2]
        rb == b[1] % b[2]
    IN  IF qa # qb THEN qa < qb
        ELSE IF ra = 0 THEN rb > 0
        ELSE IF rb = 0 THEN FALSE
        ELSE RLess(<<b[2], rb>>, <<a[2], ra>>)

(***************************************************************************)
(* float64 values: a finite rational, or one of inf, -inf, nan.            *)
(***************************************************************************)
Fin(r)  == [k |-> "fin", v |-> r]
PosInf  == [k |-> "inf", v |-> <<0, 1>>]
NegInf  == [k |-> "-inf", v |-> <<0, 1>>]
NaN     == [k |-> "nan", v |-> <<0, 1>>]

IsFin(x) == x.k = "fin"

FNeg(x) ==
    CASE x.k = "fin"  -> Fin(RNeg(x.v))
      [] x.k = "inf"  -> NegInf
      [] x.k = "-inf" -> PosInf
      [] OTHER        -> NaN

FAdd(x, y) ==
    CASE x.k = "nan" \/ y.k = "nan"  -> NaN
      [] x.k = "fin" /\ y.k = "fin"  -> Fin(RAdd(x.v, y.v))
      [] x.k = "fin"                 -> y
      [] y.k = "fin"                 -> x
      [] x.k = y.k                   -> x
      [] OTHER                       -> NaN

FSub(x, y) == FAdd(x, FNeg(y))

\* x * y for a finite y > 0
FScale(x, y) == IF x.k = "fin" THEN Fin(RMul(x.v, y)) ELSE x

\* 1 / x.  A float zero produced by a subtraction is +0.0, so 1/0 is +inf.
FInv(x) ==
    CASE x.k = "nan"               -> NaN
      [] x.k \in {"inf", "-inf"}   -> Fin(<<0, 1>>)
      [] x.v[1] = 0                -> PosInf
      [] OTHER                     -> Fin(RInv(x.v))

\* x < y in float comparison (false as soon as a nan is involved)
FLess(x, y) ==
    CASE x.k = "nan" \/ y.k = "nan"  -> FALSE
      [] x.k = "fin" /\ y.k = "fin"  -> RLess(x.v, y.v)
      [] x.k = "-inf"                -> y.k # "-inf"
      [] y.k = "inf"                 -> x.k # "inf"
      [] OTHER                       -> FALSE

\* x <= y in float comparison
FLeq(x, y) == x.k # "nan" /\ y.k # "nan" /\ ~FLess(y, x)

(***************************************************************************)
(* np.log on the pressure grid: floor(1000 * ln n) for n = 1 .. 128.       *)
(***************************************************************************)
LnMilli ==
    << 0, 693, 1098, 1386, 1609, 1791, 1945, 2079, 2197, 2302, 2397, 2484,
       2564, 2639, 2708, 2772, 2833, 2890, 2944, 2995, 3044, 3091, 3135,
       3178, 3218, 3258, 3295, 3332, 3367, 3401, 3433, 3465, 3496, 3526,
       3555, 3583, 3610, 3637, 3663, 3688, 3713, 3737, 3761, 3784, 3806,
       3828, 3850, 3871, 3891, 3912, 3931, 3951, 3970, 3988, 4007, 4025,
       4043, 4060, 4077, 4094, 4110, 4127, 4143, 4158, 4174, 4189, 4204,
       4219, 4234, 4248, 4262, 4276, 4290, 4304, 4317, 4330, 4343, 4356,
       4369, 4382, 4394, 4406, 4418, 4430, 4442, 4454, 4465, 4477, 4488,
       4499, 4510, 4521, 4532, 4543, 4553, 4564, 4574, 4584, 4595, 4605,
       4615, 4624, 4634, 4644, 4653, 4663, 4672, 4682, 4691, 4700, 4709,
       4718, 4727, 4736, 4744, 4753, 4762, 4770, 4779, 4787, 4795, 4804,
       4812, 4820, 4828, 4836, 4844, 4852 >>

\* np.log(num / den) for a grid pressure den > 0: log(0) is -inf and the
\* log of a negative number is nan (both with a RuntimeWarning, no raise)
NpLog(num, den) ==
    IF num > 0 THEN Fin(Rat(LnMilli[num] - LnMilli[den], 1000))
    ELSE IF num = 0 THEN NegInf
    ELSE NaN

(***************************************************************************)
(* calculate_new_boiling_point                                             *)
(***************************************************************************)
\* R = 8.314e-3 kJ/(mol*K)
R == <<4157, 500000>>

\* 273.15
KelvinOffset == <<5463, 20>>

\* the floor 1e-9 of np.clip, in grid units.  The grid is an order-preserving
\* rescaling of the pressure axis that keeps pressures on both sides of the
\* floor: 1 is a positive pressure below the floor.
P_FLOOR == 2

\* np.clip without its lower bound
NpClipNone(P) == P

\* np.clip(P, 1e-9, None)
NpClip(P) == IF P < P_FLOOR THEN P_FLOOR ELSE P

\* T2_K = boiling_point + 273.15
ToKelvin(boiling_point) == RAdd(boiling_point, KelvinOffset)

\* the bracket with the sign of the logarithm term reversed
DenominatorPlus(P_safe, P2, boiling_point, H_vap) ==
    FAdd(FInv(Fin(ToKelvin(boiling_point))),
         FScale(NpLog(P_safe, P2), RDiv(R, H_vap)))

\* (1 / T2_K) - (R / H_vap) * np.log(P_safe / P2)
Denominator(P_safe, P2, boiling_point, H_vap) ==
    FSub(FInv(Fin(ToKelvin(boiling_point))),
         FScale(NpLog(P_safe, P2), RDiv(R, H_vap)))

\* the conversion back with 273 for 273.15
ToCelsius273(T1_K) == FSub(T1_K, Fin(<<273, 1>>))

\* T1_K - 273.15
ToCelsius(T1_K) == FSub(T1_K, Fin(KelvinOffset))

calculate_new_boiling_point(P, P2, boiling_point, H_vap) ==
    LET P_safe == NpClip(P)
        T1_K   == FInv(Denominator(P_safe, P2, boiling_point, H_vap))
    IN  ToCelsius(T1_K)

(***************************************************************************)
(* Tables (pandas DataFrames) and get_compound_properties                  *)
(***************************************************************************)
ItemCol == "Item"
HvapCol == "Vap Enthalpy (kJ/mol)"
T2Col   == "T2 (C)"
P2Col   == "P2 (torr)"

AllCols == {ItemCol, HvapCol, T2Col, P2Col}

\* a DataFrame: its columns and its rows in source order
Frame(cols, rows) ==
    [cols |-> cols, rows |-> [i \in 1..Len(rows) |-> [c \in cols |-> rows[i][c]]]]

\* Python's None
None == "<None>"

\* the outcome of a call: a returned value or the exception it raised
Returned(v)     == [kind |-> "ok", value |-> v, msg |-> ""]
Raised(kind, m) == [kind |-> kind, value |-> <<>>, msg |-> m]

\* df[df['Item'] == item_name]: the rows whose Item equals the name exactly
\* (string equality is case-sensitive; nothing equals None)
FilterByItem(df, item_name) ==
    SelectSeq(df.rows, LAMBDA r : r[ItemCol] = item_name)

\* .iloc[-1] for .iloc[0]
IlocLast(rows) == rows[Len(rows)]

\* .iloc[0]: position 0 of the filtered rows
Iloc0(rows) == rows[1]

get_compound_properties(df, item_name) ==
    IF ItemCol \notin df.cols THEN Raised("KeyError", ItemCol)
    ELSE LET matched == FilterByItem(df, item_name)
         IN  IF Len(matched) = 0
             THEN Raised("IndexError", "single positional indexer is out-of-bounds")
             ELSE LET data_row == Iloc0(matched)
                  IN  IF HvapCol \notin df.cols THEN Raised("KeyError", HvapCol)
                      ELSE IF T2Col \notin df.cols THEN Raised("KeyError", T2Col)
                      ELSE IF P2Col \notin df.cols THEN Raised("KeyError", P2Col)
                      ELSE Returned(<<data_row[HvapCol], data_row[T2Col],
                                      data_row[P2Col]>>)

(***************************************************************************)
(* np.linspace(start, stop, num), num >= 2, endpoint included              *)
(***************************************************************************)
\* np.linspace(stop, start, num): the two ends exchanged
LinspaceSwapped(start, stop, num) ==
    [i \in 1..num |->
        IF i = num THEN start
        ELSE stop - ((i - 1) * (stop - start)) \div (num - 1)]

\* np.linspace(start, stop, num, endpoint=False)
LinspaceNoEndpoint(start, stop, num) ==
    [i \in 1..num |-> start + ((i - 1) * (stop - start)) \div num]

Linspace(start, stop, num) ==
    [i \in 1..num |->
        IF i = num THEN stop
        ELSE start + ((i - 1) * (stop - start)) \div (num - 1)]

(***************************************************************************)
(* State                                                                   *)
(***************************************************************************)
VARIABLES
    \* the equation engine applied to drawn inputs
    eqPc, eqIn, eqSafe, eqDen, eqOut, eqPrev,
    \* get_compound_properties applied to drawn inputs
    lkPc, lkDf, lkName, lkOut,
    \* the application: the file, the st.cache_data cache, the sessions
    source, cache, lockHolder, readAttempts, readsCompleted,
    pc, computed_value, df_compounds, selected_compound, pressure_range,
    props, P_values, T_values, df_plot, error

eqVars  == <<eqPc, eqIn, eqSafe, eqDen, eqOut, eqPrev>>
lkVars  == <<lkPc, lkDf, lkName, lkOut>>
appVars == <<source, cache, lockHolder, readAttempts, readsCompleted,
             pc, computed_value, df_compounds, selected_compound,
             pressure_range, props, P_values, T_values, df_plot, error>>
vars    == <<eqVars, lkVars, appVars>>

(***************************************************************************)
(* Inputs                                                                  *)
(***************************************************************************)
\* rows of chem_list.csv: [Item, Vap Enthalpy (kJ/mol), T2 (C), P2 (torr)]
Row(item, h_vap, t2, p2) ==
    [c \in AllCols |->
        CASE c = ItemCol -> item
          [] c = HvapCol -> h_vap
          [] c = T2Col   -> t2
          [] OTHER       -> p2]

\* 41.57 kJ/mol, 26.85 C, 6 grid units
RowWater    == Row("Water", <<4157, 100>>, <<537, 20>>, 6)
\* a second row with the same Item and other values
RowWaterDup == Row("Water", <<4157, 500>>, <<537, 20>>, 3)
\* an Item that differs from "Water" in letter case only
RowLower    == Row("water", <<4157, 100>>, <<4537, 20>>, 3)
\* 8.314 kJ/mol, 226.85 C, 3 grid units
RowEthanol  == Row("Ethanol", <<4157, 500>>, <<4537, 20>>, 3)

\* pressures handed to the equation: negative, zero, below the floor, the
\* floor, above it, and 96 (with P2 = 13 the pole of the 8.314 kJ/mol,
\* 226.85 C reference: LnMilli[96] - LnMilli[13] = 2000)
EqPressures == (-1..MaxP) \cup {96}
\* reference pressures: below the floor (1), the floor (2) and above it
EqRefPressures == {1, 2, 3, 13}
EqBoilingPoints == {<<537, 20>>, <<4537, 20>>}
EqEnthalpies == {<<4157, 500>>, <<4157, 100>>}

NoPrev == [P |-> 0, den |-> NaN, out |-> NaN, set |-> FALSE]

\* tables handed to get_compound_properties: the four columns, up to
\* MaxRows rows, duplicates and case variants included
LkRowSet == {RowWater, RowWaterDup, RowLower, RowEthanol}
LkTables ==
    {Frame(AllCols, rows) : rows \in UNION {[1..n -> LkRowSet] : n \in 0..MaxRows}}
LkNames == {"Water", "water", "Ethanol", "Acetone", "WATER", None}

(***************************************************************************)
(* The equation engine on drawn inputs                                     *)
(***************************************************************************)
EqIdle ==
    /\ eqPc = "off"
    /\ eqIn = [P |-> 0, P2 |-> 1, boiling_point |-> <<0, 1>>, H_vap |-> <<1, 1>>]
    /\ eqSafe = 0
    /\ eqDen = NaN
    /\ eqOut = NaN
    /\ eqPrev = NoPrev

EqInit ==
    /\ eqPc = "start"
    /\ eqIn \in [P : EqPressures, P2 : EqRefPressures,
                 boiling_point : EqBoilingPoints, H_vap : EqEnthalpies]
    /\ eqSafe = 0
    /\ eqDen = NaN
    /\ eqOut = NaN
    /\ eqPrev = NoPrev

\* line 36
EqClip ==
    /\ eqPc = "start"
    /\ eqSafe' = NpClip(eqIn.P)
    /\ eqPc' = "clipped"
    /\ UNCHANGED <<eqIn, eqDen, eqOut, eqPrev>>

\* line 40, the bracket
EqDenominator ==
    /\ eqPc = "clipped"
    /\ eqDen' = Denominator(eqSafe, eqIn.P2, eqIn.boiling_point, eqIn.H_vap)
    /\ eqPc' = "divided"
    /\ UNCHANGED <<eqIn, eqSafe, eqOut, eqPrev>>

\* lines 40 and 43
EqReturn ==
    /\ eqPc = "divided"
    /\ eqOut' = ToCelsius(FInv(eqDen))
    /\ eqPc' = "done"
    /\ UNCHANGED <<eqIn, eqSafe, eqDen, eqPrev>>

\* the next evaluation, at another pressure for the same reference triple
EqAgain ==
    /\ eqPc = "done"
    /\ eqPrev' = [P |-> eqIn.P, den |-> eqDen, out |-> eqOut, set |-> TRUE]
    /\ \E P \in EqPressures : eqIn' = [eqIn EXCEPT !.P = P]
    /\ eqPc' = "start"
    /\ UNCHANGED <<eqSafe, eqDen, eqOut>>

(***************************************************************************)
(* get_compound_properties on drawn inputs                                 *)
(***************************************************************************)
LkIdle ==
    /\ lkPc = "off"
    /\ lkDf = Frame(AllCols, <<>>)
    /\ lkName = None
    /\ lkOut = Returned(<<>>)

LkInit ==
    /\ lkPc = "call"
    /\ lkDf \in LkTables
    /\ lkName \in LkNames
    /\ lkOut = Returned(<<>>)

\* lines 22-23
LkCall ==
    /\ lkPc = "call"
    /\ lkOut' = get_compound_properties(lkDf, lkName)
    /\ lkPc' = "done"
    /\ UNCHANGED <<lkDf, lkName>>

\* the next lookup in the same table
LkAgain ==
    /\ lkPc = "done"
    /\ \E n \in LkNames : lkName' = n
    /\ lkPc' = "call"
    /\ UNCHANGED <<lkDf, lkOut>>

(***************************************************************************)
(* The application: sessions running main against the shared cache         *)
(***************************************************************************)
Sessions == 1..NumSessions
NoSession == 0
\* the session followed through the whole of main; the others are followed
\* through load_data, the only step that touches shared state
Followed == {1}

\* ./chem_list.csv as it is on disk: unreadable, or a table
File(readable, frame) == [readable |-> readable, frame |-> frame]

TableGood   == Frame(AllCols, <<RowWater, RowEthanol, RowWaterDup>>)
TableOther  == Frame(AllCols, <<RowEthanol>>)
TableEmpty  == Frame(AllCols, <<>>)
TableNoT2   == Frame(AllCols \ {T2Col}, <<RowWater, RowEthanol>>)
TableNoItem == Frame(AllCols \ {ItemCol}, <<RowWater>>)

SourceFiles ==
    {File(TRUE, TableGood), File(TRUE, TableOther), File(TRUE, TableEmpty),
     File(TRUE, TableNoT2), File(TRUE, TableNoItem), File(FALSE, TableEmpty)}

\* the slider: min_value = 0.1, step = 0.1.  One slider step is NumSamples - 1
\* grid units, so that every sample of np.linspace is a grid pressure.
SliderStep == NumSamples - 1
SliderMin == SliderStep
SliderValues == {SliderMin + t * SliderStep : t \in 0..MaxTick}

\* a name not yet bound / bound to a value
Unbound == <<>>
Bound(v) == <<v>>

NoError == [kind |-> "", msg |-> "", at |-> ""]
Failure(kind, msg, at) == [kind |-> kind, msg |-> msg, at |-> at]

\* a cache whose entries have no lock
LockIgnored(holder) == TRUE

\* the compute_value_lock of the cache entry can be taken
LockFree(holder) == holder = NoSession

\* df['Item'].tolist()
ItemList(df) == [i \in 1..Len(df.rows) |-> df.rows[i][ItemCol]]

Locals0 ==
    /\ computed_value = [s \in Sessions |-> Unbound]
    /\ df_compounds = [s \in Sessions |-> Unbound]
    /\ selected_compound = [s \in Sessions |-> ""]
    /\ pressure_range = [s \in Sessions |-> <<0, 0>>]
    /\ props = [s \in Sessions |-> <<>>]
    /\ P_values = [s \in Sessions |-> <<>>]
    /\ T_values = [s \in Sessions |-> <<>>]
    /\ df_plot = [s \in Sessions |-> <<>>]
    /\ error = [s \in Sessions |-> NoError]

AppIdle ==
    /\ source = File(FALSE, TableEmpty)
    /\ cache = Unbound
    /\ lockHolder = NoSession
    /\ readAttempts = 0
    /\ readsCompleted = 0
    /\ pc = [s \in Sessions |-> "off"]
    /\ Locals0

AppInit ==
    /\ source \in SourceFiles
    /\ cache = Unbound
    /\ lockHolder = NoSession
    /\ readAttempts = 0
    /\ readsCompleted = 0
    /\ pc = [s \in Sessions |-> "idle"]
    /\ Locals0

shared == <<source, cache, lockHolder, readAttempts, readsCompleted>>

\* the file is edited on disk
EditSource ==
    /\ \E f \in SourceFiles \ {source} : source' = f
    /\ UNCHANGED <<cache, lockHolder, readAttempts, readsCompleted, pc,
                   computed_value, df_compounds, selected_compound,
                   pressure_range, props, P_values, T_values, df_plot, error>>

\* the script of a session is (re)run from the top: line 46
Rerun(s) ==
    /\ pc[s] \in {"idle", "rendered", "failed"}
    /\ pc' = [pc EXCEPT ![s] = "load_data"]
    /\ computed_value' = [computed_value EXCEPT ![s] = Unbound]
    /\ df_compounds' = [df_compounds EXCEPT ![s] = Unbound]
    /\ selected_compound' = [selected_compound EXCEPT ![s] = ""]
    /\ pressure_range' = [pressure_range EXCEPT ![s] = <<0, 0>>]
    /\ props' = [props EXCEPT ![s] = <<>>]
    /\ P_values' = [P_values EXCEPT ![s] = <<>>]
    /\ T_values' = [T_values EXCEPT ![s] = <<>>]
    /\ df_plot' = [df_plot EXCEPT ![s] = <<>>]
    /\ error' = [error EXCEPT ![s] = NoError]
    /\ UNCHANGED shared

\* line 54, @st.cache_data: the entry is in the cache; the caller gets a copy
CacheHit(s) ==
    /\ pc[s] = "load_data"
    /\ cache # Unbound
    /\ df_compounds' = [df_compounds EXCEPT ![s] = cache]
    /\ pc' = [pc EXCEPT ![s] = "select"]
    /\ UNCHANGED <<shared, computed_value, selected_compound, pressure_range,
                   props, P_values, T_values, df_plot, error>>

\* line 54, @st.cache_data: no entry; the caller goes for the entry's lock
CacheMiss(s) ==
    /\ pc[s] = "load_data"
    /\ cache = Unbound
    /\ pc' = [pc EXCEPT ![s] = "wait_lock"]
    /\ UNCHANGED <<shared, computed_value, df_compounds, selected_compound,
                   pressure_range, props, P_values, T_values, df_plot, error>>

AcquireLock(s) ==
    /\ pc[s] = "wait_lock"
    /\ LockFree(lockHolder)
    /\ lockHolder' = s
    /\ pc' = [pc EXCEPT ![s] = "recheck"]
    /\ UNCHANGED <<source, cache, readAttempts, readsCompleted, computed_value,
                   df_compounds, selected_compound, pressure_range, props,
                   P_values, T_values, df_plot, error>>

\* under the lock: another caller has computed the entry in the meantime
RecheckHit(s) ==
    /\ pc[s] = "recheck"
    /\ cache # Unbound
    /\ df_compounds' = [df_compounds EXCEPT ![s] = cache]
    /\ lockHolder' = NoSession
    /\ pc' = [pc EXCEPT ![s] = "select"]
    /\ UNCHANGED <<source, cache, readAttempts, readsCompleted, computed_value,
                   selected_compound, pressure_range, props, P_values,
                   T_values, df_plot, error>>

\* under the lock: still no entry, load_data is called
RecheckMiss(s) ==
    /\ pc[s] = "recheck"
    /\ cache = Unbound
    /\ pc' = [pc EXCEPT ![s] = "read_csv"]
    /\ UNCHANGED <<shared, computed_value, df_compounds, selected_compound,
                   pressure_range, props, P_values, T_values, df_plot, error>>

\* lines 15-16: pd.read_csv returns the table that is on disk
ReadCsv(s) ==
    /\ pc[s] = "read_csv"
    /\ readAttempts < MaxReads
    /\ source.readable
    /\ computed_value' = [computed_value EXCEPT ![s] = Bound(source.frame)]
    /\ readAttempts' = readAttempts + 1
    /\ readsCompleted' = readsCompleted + 1
    /\ pc' = [pc EXCEPT ![s] = "write"]
    /\ UNCHANGED <<source, cache, lockHolder, df_compounds, selected_compound,
                   pressure_range, props, P_values, T_values, df_plot, error>>

\* line 15: pd.read_csv raises; nothing is cached and the lock is released
ReadCsvRaises(s) ==
    /\ pc[s] = "read_csv"
    /\ readAttempts < MaxReads
    /\ ~source.readable
    /\ readAttempts' = readAttempts + 1
    /\ lockHolder' = NoSession
    /\ error' = [error EXCEPT ![s] =
                    Failure("FileNotFoundError", "./chem_list.csv", "load_data")]
    /\ pc' = [pc EXCEPT ![s] = "failed"]
    /\ UNCHANGED <<source, cache, readsCompleted, computed_value, df_compounds,
                   selected_compound, pressure_range, props, P_values,
                   T_values, df_plot>>

\* the computed table is written to the cache and returned to the caller
WriteResult(s) ==
    /\ pc[s] = "write"
    /\ cache' = computed_value[s]
    /\ df_compounds' = [df_compounds EXCEPT ![s] = computed_value[s]]
    /\ lockHolder' = NoSession
    /\ pc' = [pc EXCEPT ![s] = "select"]
    /\ UNCHANGED <<source, readAttempts, readsCompleted, computed_value,
                   selected_compound, pressure_range, props, P_values,
                   T_values, df_plot, error>>

\* st.sidebar.selectbox(..., index=None): nothing may be selected
SelectboxUnset(options) ==
    {None} \cup {options[i] : i \in 1..Len(options)}

\* the choice st.sidebar.selectbox returns for a list of options: one of
\* the options, or None when there is none
Selectbox(options) ==
    IF Len(options) = 0 THEN {None} ELSE {options[i] : i \in 1..Len(options)}

\* lines 60-64
SelectCompound(s) ==
    /\ pc[s] = "select"
    /\ ItemCol \in df_compounds[s][1].cols
    /\ \E choice \in Selectbox(ItemList(df_compounds[s][1])) :
          selected_compound' = [selected_compound EXCEPT ![s] = choice]
    /\ pc' = [pc EXCEPT ![s] = "slider"]
    /\ UNCHANGED <<shared, computed_value, df_compounds, pressure_range,
                   props, P_values, T_values, df_plot, error>>

\* line 60: df_compounds['Item'] on a table without that column
SelectRaises(s) ==
    /\ pc[s] = "select"
    /\ ItemCol \notin df_compounds[s][1].cols
    /\ error' = [error EXCEPT ![s] = Failure("KeyError", ItemCol, "select")]
    /\ pc' = [pc EXCEPT ![s] = "failed"]
    /\ UNCHANGED <<shared, computed_value, df_compounds, selected_compound,
                   pressure_range, props, P_values, T_values, df_plot>>

\* lines 67-73: the range slider returns (low, high) with low <= high
SlidePressure(s) ==
    /\ pc[s] = "slider"
    /\ \E lo \in SliderValues, hi \in SliderValues :
          /\ lo <= hi
          /\ pressure_range' = [pressure_range EXCEPT ![s] = <<lo, hi>>]
    /\ pc' = [pc EXCEPT ![s] = "lookup"]
    /\ UNCHANGED <<shared, computed_value, df_compounds, selected_compound,
                   props, P_values, T_values, df_plot, error>>

\* line 79, the call returns
Lookup(s) ==
    LET out == get_compound_properties(df_compounds[s][1], selected_compound[s])
    IN  /\ pc[s] = "lookup"
        /\ out.kind = "ok"
        /\ props' = [props EXCEPT ![s] = out.value]
        /\ pc' = [pc EXCEPT ![s] = "linspace"]
        /\ UNCHANGED <<shared, computed_value, df_compounds, selected_compound,
                       pressure_range, P_values, T_values, df_plot, error>>

\* line 79, the call raises
LookupRaises(s) ==
    LET out == get_compound_properties(df_compounds[s][1], selected_compound[s])
    IN  /\ pc[s] = "lookup"
        /\ out.kind # "ok"
        /\ error' = [error EXCEPT ![s] = Failure(out.kind, out.msg, "lookup")]
        /\ pc' = [pc EXCEPT ![s] = "failed"]
        /\ UNCHANGED <<shared, computed_value, df_compounds, selected_compound,
                       pressure_range, props, P_values, T_values, df_plot>>

\* line 82
Sample(s) ==
    /\ pc[s] = "linspace"
    /\ P_values' = [P_values EXCEPT ![s] =
                       Linspace(pressure_range[s][1], pressure_range[s][2],
                                NumSamples)]
    /\ pc' = [pc EXCEPT ![s] = "calculate"]
    /\ UNCHANGED <<shared, computed_value, df_compounds, selected_compound,
                   pressure_range, props, T_values, df_plot, error>>

\* calculate_new_boiling_point on an array: element by element
Vectorized(Ps, P2, boiling_point, H_vap) ==
    [i \in 1..Len(Ps) |->
        calculate_new_boiling_point(Ps[i], P2, boiling_point, H_vap)]

\* line 85: h_vap_ref, bp, p2_ref = props
Compute(s) ==
    /\ pc[s] = "calculate"
    /\ T_values' = [T_values EXCEPT ![s] =
                       Vectorized(P_values[s], props[s][3], props[s][2],
                                  props[s][1])]
    /\ pc' = [pc EXCEPT ![s] = "plot"]
    /\ UNCHANGED <<shared, computed_value, df_compounds, selected_compound,
                   pressure_range, props, P_values, df_plot, error>>

\* pd.DataFrame of the two columns: row i pairs the i-th entries
PlotFrame(Ps, Ts) == [i \in 1..Len(Ps) |-> <<Ps[i], Ts[i]>>]

\* lines 88-122
Plot(s) ==
    /\ pc[s] = "plot"
    /\ df_plot' = [df_plot EXCEPT ![s] = PlotFrame(P_values[s], T_values[s])]
    /\ pc' = [pc EXCEPT ![s] = "rendered"]
    /\ UNCHANGED <<shared, computed_value, df_compounds, selected_compound,
                   pressure_range, props, P_values, T_values, error>>

\* lines 60-122 in a session that is followed through load_data only: the
\* rest of its script touches nothing but its own locals
RestOfScript(s) ==
    /\ pc[s] = "select"
    /\ pc' = [pc EXCEPT ![s] = "rendered"]
    /\ UNCHANGED <<shared, computed_value, df_compounds, selected_compound,
                   pressure_range, props, P_values, T_values, df_plot, error>>

(***************************************************************************)
(* Specifications                                                          *)
(***************************************************************************)
\* the application
Init == AppInit /\ EqIdle /\ LkIdle

\* line 54 in any session, with the start of its script
load_data(s) ==
    \/ Rerun(s)
    \/ CacheHit(s)
    \/ CacheMiss(s)
    \/ AcquireLock(s)
    \/ RecheckHit(s)
    \/ RecheckMiss(s)
    \/ ReadCsv(s)
    \/ ReadCsvRaises(s)
    \/ WriteResult(s)

\* lines 60-122 in a followed session
main(s) ==
    \/ SelectCompound(s)
    \/ SelectRaises(s)
    \/ SlidePressure(s)
    \/ Lookup(s)
    \/ LookupRaises(s)
    \/ Sample(s)
    \/ Compute(s)
    \/ Plot(s)

Next ==
    \/ EditSource /\ UNCHANGED <<eqVars, lkVars>>
    \/ \E s \in Sessions : load_data(s) /\ UNCHANGED <<eqVars, lkVars>>
    \/ \E s \in Followed : main(s) /\ UNCHANGED <<eqVars, lkVars>>
    \/ \E s \in Sessions \ Followed : RestOfScript(s) /\ UNCHANGED <<eqVars, lkVars>>

Spec == Init /\ [][Next]_vars

\* calculate_new_boiling_point on drawn inputs
InitEq == EqInit /\ AppIdle /\ LkIdle

NextEq ==
    \/ EqClip /\ UNCHANGED <<lkVars, appVars>>
    \/ EqDenominator /\ UNCHANGED <<lkVars, appVars>>
    \/ EqReturn /\ UNCHANGED <<lkVars, appVars>>
    \/ EqAgain /\ UNCHANGED <<lkVars, appVars>>

SpecEq == InitEq /\ [][NextEq]_vars

\* get_compound_properties on drawn inputs
InitLk == LkInit /\ AppIdle /\ EqIdle

NextLk ==
    \/ LkCall /\ UNCHANGED <<eqVars, appVars>>
    \/ LkAgain /\ UNCHANGED <<eqVars, appVars>>

SpecLk == InitLk /\ [][NextLk]_vars

(***************************************************************************)
(* Properties                                                              *)
(***************************************************************************)
\* the pressures of the curve a session has produced
CurvePressures(s) == [i \in 1..Len(df_plot[s]) |-> df_plot[s][i][1]]
CurveTemperatures(s) == [i \in 1..Len(df_plot[s]) |-> df_plot[s][i][2]]
HasCurve(s) == df_plot[s] # <<>>

\* C1, as stated: the points of every produced curve are in strictly
\* increasing pressure order, also when the two ends of the range are equal.
C1_StrictlyIncreasing ==
    \A s \in Sessions : HasCurve(s) =>
        \A i \in 1..(Len(df_plot[s]) - 1) :
            CurvePressures(s)[i] < CurvePressures(s)[i + 1]

\* C1, amended: the points of every produced curve are in non-decreasing
\* pressure order; they are strictly increasing when pressureMin <
\* pressureMax and all equal to that pressure when pressureMin = pressureMax.
C1_IncreasingUnlessDegenerate ==
    \A s \in Sessions : HasCurve(s) =>
        \A i \in 1..(Len(df_plot[s]) - 1) :
            /\ CurvePressures(s)[i] <= CurvePressures(s)[i + 1]
            /\ pressure_range[s][1] < pressure_range[s][2]
                  => CurvePressures(s)[i] < CurvePressures(s)[i + 1]
            /\ pressure_range[s][1] = pressure_range[s][2]
                  => /\ CurvePressures(s)[i] = pressure_range[s][1]
                     /\ CurvePressures(s)[i + 1] = pressure_range[s][1]

C1_Witness ==
    \E s \in Sessions :
        /\ HasCurve(s)
        /\ pressure_range[s][1] < pressure_range[s][2]
        /\ CurvePressures(s)[1] < CurvePressures(s)[2]

\* C2: a produced curve has exactly the requested number of points, starts
\* at pressureMin, ends at pressureMax, has evenly spaced pressures, and the
\* temperature of point i is the prediction for the pressure of point i from
\* the looked-up record's (P2, T2, H_vap).
C2_CurveShape ==
    \A s \in Sessions : HasCurve(s) =>
        LET Ps == CurvePressures(s)
            Ts == CurveTemperatures(s)
        IN  /\ Len(df_plot[s]) = NumSamples
            /\ Ps[1] = pressure_range[s][1]
            /\ Ps[NumSamples] = pressure_range[s][2]
            /\ \A i \in 1..(NumSamples - 1) :
                  (Ps[i + 1] - Ps[i]) * (NumSamples - 1)
                      = pressure_range[s][2] - pressure_range[s][1]
            /\ \A i \in 1..NumSamples :
                  Ts[i] = calculate_new_boiling_point(Ps[i], props[s][3],
                                                      props[s][2], props[s][1])

C2_Witness ==
    \E s \in Sessions :
        /\ HasCurve(s)
        /\ pressure_range[s][1] < pressure_range[s][2]
        /\ \A i \in 1..Len(df_plot[s]) : IsFin(CurveTemperatures(s)[i])
        /\ CurveTemperatures(s)[1] # CurveTemperatures(s)[NumSamples]

\* the bracketed denominator is zero: the pole of the equation
AtPole(den) == den.k = "fin" /\ den.v[1] = 0
BelowPole(den) == den.k = "fin" /\ den.v[1] > 0
AbovePole(den) == den.k = "fin" /\ den.v[1] < 0

\* C3: in every evaluation the argument P_safe / P2 of the logarithm is
\* strictly positive, and for P <= 0 away from the pole the result is the
\* finite value returned for P = 1e-9 (the floor).
C3_ClampedToFloor ==
    /\ eqPc \in {"clipped", "divided", "done"} => eqSafe > 0 /\ eqIn.P2 > 0
    /\ eqPc \in {"divided", "done"} => eqDen.k = "fin"
    /\ (eqPc = "done" /\ eqIn.P <= 0 /\ ~AtPole(eqDen)) =>
          /\ IsFin(eqOut)
          /\ eqOut = calculate_new_boiling_point(P_FLOOR, eqIn.P2,
                                                 eqIn.boiling_point, eqIn.H_vap)

C3_Witness ==
    /\ eqPc = "done"
    /\ eqIn.P <= 0
    /\ eqSafe = P_FLOOR
    /\ IsFin(eqOut)

\* C4, as stated: evaluated at the reference pressure itself, for any
\* reference pressure above zero, the function returns T2.
C4_ReferenceIdentity ==
    (eqPc = "done" /\ eqIn.P = eqIn.P2) => eqOut = Fin(eqIn.boiling_point)

\* C4, amended: evaluated at the reference pressure itself, the function
\* returns T2 provided the reference pressure is not below the floor 1e-9.
C4_ReferenceIdentityAboveFloor ==
    (eqPc = "done" /\ eqIn.P = eqIn.P2 /\ eqIn.P2 >= P_FLOOR)
        => eqOut = Fin(eqIn.boiling_point)

C4_Witness ==
    /\ eqPc = "done"
    /\ eqIn.P = eqIn.P2
    /\ eqIn.P2 > P_FLOOR
    /\ eqOut = Fin(eqIn.boiling_point)

\* C5, as stated: for a fixed reference triple and any two pressures
\* Pa < Pb, the prediction for Pa is not greater than the prediction for Pb.
C5_Monotone ==
    (eqPc = "done" /\ eqPrev.set /\ eqPrev.P < eqIn.P)
        => FLeq(eqPrev.out, eqOut)

\* C5, amended: for a fixed reference triple and two pressures Pa < Pb on
\* the same side of the pole (the denominator positive at both, or negative
\* at both), the prediction for Pa is not greater than the prediction for Pb.
C5_MonotoneOnEachSide ==
    (/\ eqPc = "done" /\ eqPrev.set /\ eqPrev.P < eqIn.P
     /\ \/ BelowPole(eqPrev.den) /\ BelowPole(eqDen)
        \/ AbovePole(eqPrev.den) /\ AbovePole(eqDen))
        => FLeq(eqPrev.out, eqOut)

C5_Witness ==
    /\ eqPc = "done" /\ eqPrev.set /\ eqPrev.P < eqIn.P
    /\ AbovePole(eqPrev.den) /\ AbovePole(eqDen)
    /\ FLess(eqPrev.out, eqOut)

\* the names of the Item column
ItemsOf(df) == {df.rows[i][ItemCol] : i \in 1..Len(df.rows)}

\* C6: a lookup of a name that equals no row's Item fails with a
\* NotFoundError that identifies the offending name.
C6_NotFoundNamesTheName ==
    (lkPc = "done" /\ lkName \notin ItemsOf(lkDf))
        => lkOut.kind = "NotFoundError" /\ lkOut.msg = lkName

C8_LoadedTableHasColumns ==
    \A s \in Sessions :
        df_compounds[s] # Unbound => AllCols \subseteq df_compounds[s][1].cols

\* the triple of the first row, in source order, whose Item is the name
FirstMatch(df, name) ==
    LET i == CHOOSE k \in 1..Len(df.rows) :
                 /\ df.rows[k][ItemCol] = name
                 /\ \A j \in 1..(k - 1) : df.rows[j][ItemCol] # name
    IN  <<df.rows[i][HvapCol], df.rows[i][T2Col], df.rows[i][P2Col]>>

\* C9: a lookup of a name that equals some row's Item returns the triple of
\* the first such row in source order, and raises nothing, also when later
\* rows share the Item.
C9_FirstMatch ==
    (lkPc = "done" /\ lkName \in ItemsOf(lkDf))
        => lkOut = Returned(FirstMatch(lkDf, lkName))

C9_Witness ==
    /\ lkPc = "done"
    /\ \E i, j \in 1..Len(lkDf.rows) :
          /\ i < j
          /\ lkDf.rows[i][ItemCol] = lkName
          /\ lkDf.rows[j][ItemCol] = lkName
          /\ lkDf.rows[i] # lkDf.rows[j]
    /\ lkOut.kind = "ok"

\* the steps of main after the lookup
AfterLookup == {"linspace", "calculate", "plot", "rendered"}

\* C10, as stated: for every loaded table, a table with no rows included, the
\* name handed to the lookup is one of the table's Items and the lookup
\* does not fail.
C10_LookupAlwaysSucceeds ==
    \A s \in Followed :
        /\ pc[s] = "lookup" =>
              selected_compound[s] \in ItemsOf(df_compounds[s][1])
        /\ error[s].at # "lookup"

\* C10, amended: the name handed to the lookup is one of the table's Items
\* when the table has at least one row and is None when it has none; the
\* lookup succeeds, and sampling and rendering follow it without failing,
\* exactly when the table has at least one row and the three property
\* columns; otherwise it raises (IndexError for no row, KeyError for a
\* missing column).
C10_LookupSucceedsOnNonEmpty ==
    \A s \in Followed :
        LET df == df_compounds[s][1]
            complete == Len(df.rows) >= 1 /\ AllCols \subseteq df.cols
        IN  /\ pc[s] \in {"slider", "lookup"} \cup AfterLookup =>
                  IF Len(df.rows) >= 1
                  THEN selected_compound[s] \in ItemsOf(df)
                  ELSE selected_compound[s] = None
            /\ pc[s] \in AfterLookup => complete /\ error[s] = NoError
            /\ (pc[s] = "failed" /\ error[s].at = "lookup") =>
                  /\ ~complete
                  /\ Len(df.rows) = 0 => error[s].kind = "IndexError"
                  /\ Len(df.rows) >= 1 => error[s].kind = "KeyError"
            /\ error[s].at \in {"", "load_data", "select", "lookup"}

C10_Witness ==
    \E s \in Followed :
        /\ pc[s] = "rendered"
        /\ Len(df_compounds[s][1].rows) >= 2
        /\ selected_compound[s] \in ItemsOf(df_compounds[s][1])
        /\ HasCurve(s)

====
